---- MODULE Spec2Model ----
(***************************************************************************)
(* Careful Resume (quiche/src/recovery/congestion/resume.rs).              *)
(*                                                                         *)
(* The model follows the Resume struct and its methods setup, send_packet, *)
(* process_ack and congestion_event.  Each method is a pure operator from  *)
(* the instance and the arguments to the instance after the call and the   *)
(* value returned; each action applies one method to the instance with     *)
(* arguments drawn from small sets and records the call.                   *)
(*                                                                         *)
(* Durations are natural numbers of an abstract time unit, 0..DurationMax, *)
(* where DurationMax stands for Duration::MAX: `Duration * u32` panics     *)
(* when the product is not representable, and `Duration / u32` truncates.  *)
(* Byte counts (usize) are natural numbers; the actions keep the running   *)
(* sums below MaxBytes, which stands for a range far below usize::MAX.     *)
(*                                                                         *)
(* Spec is the Resume instance under a host that may make any call;        *)
(* SpecOrdered is the same instance under a host whose packet numbers are  *)
(* accurate; SpecObserver is the CRMetrics observer and its clock;         *)
(* SpecAcks is a host whose acknowledgements keep arriving; SpecQlog is a  *)
(* host that also calls maybe_qlog.                                        *)
(***************************************************************************)
EXTENDS Integers, Sequences, FiniteSets, TLC

\* ------------------------------------------------------------------ bounds
MaxPkt == 2          \* packet numbers are 0..MaxPkt
MaxSize == 2         \* acked packet sizes are 0..MaxSize
MaxCwnd == 2         \* cwnd arguments are 0..MaxCwnd
MaxFlight == 2       \* flightsize arguments are 0..MaxFlight
MaxPrevCwnd == 5     \* previous_cwnd given to setup is 0..MaxPrevCwnd
MaxPrevRtt == 2      \* previous_rtt given to setup is 0..MaxPrevRtt
DurationMax == 10    \* the largest representable Duration
RttEdge == 1         \* RTT samples lie within RttEdge of 0 or of DurationMax
MaxBytes == 2        \* total_acked stays within 0..MaxBytes

PktNums == 0..MaxPkt
Sizes == 0..MaxSize
Cwnds == 0..MaxCwnd
Flights == 0..MaxFlight
PrevCwnds == 0..MaxPrevCwnd
PrevRtts == 0..MaxPrevRtt
Durations == 0..DurationMax

\* ------------------------------------------------------------ Option<T>
None == <<>>
Some(x) == <<x>>
Unwrap(o) == o[1]

\* The rtt_sample arguments: none, or a duration at either end of the range.
RttSamples ==
    {None} \cup
    {Some(d) : d \in {x \in Durations : x <= RttEdge \/ x >= DurationMax - RttEdge}}

\* ------------------------------------------------ CarefulResumeTrigger
CarefulResumeTrigger ==
    {"PacketLoss", "CwndLimited", "CrMarkAcknowledged", "RttNotValidated",
     "EcnCe", "ExitRecovery"}

\* ------------------------------------------------------------- CrState
Reconnaissance == <<"Reconnaissance">>
Unvalidated(m) == <<"Unvalidated", m>>
Validating(m) == <<"Validating", m>>
SafeRetreat(m) == <<"SafeRetreat", m>>
Normal == <<"Normal">>

\* The variant of a CrState, and the packet number a marked variant carries.
Tag(state) == state[1]
Mark(state) == state[2]

\* --------------------------------------------------------------- Resume
\* Resume::new
new ==
    [ enabled |-> FALSE,
      cr_state |-> Reconnaissance,
      previous_rtt |-> 0,
      previous_cwnd |-> 0,
      pipesize |-> 0,
      total_acked |-> 0,
      last_trigger |-> None ]

\* What a call leaves behind: the instance, and the value returned.
Returns(self, ret) == [self |-> self, ret |-> ret, panic |-> FALSE]
\* A call that panics returns nothing; self is the instance as the panic left it.
Panics(self) == [self |-> self, ret |-> None, panic |-> TRUE]

\* Faulty variant of setup: it also puts the instance back in Reconnaissance.
setup_resets_phase(self, previous_rtt, previous_cwnd) ==
    Returns([self EXCEPT !.enabled = TRUE,
                         !.previous_rtt = previous_rtt,
                         !.previous_cwnd = previous_cwnd,
                         !.cr_state = Reconnaissance], None)

\* Faulty variant of setup: it also clears pipesize.
setup_resets_pipesize(self, previous_rtt, previous_cwnd) ==
    Returns([self EXCEPT !.enabled = TRUE,
                         !.previous_rtt = previous_rtt,
                         !.previous_cwnd = previous_cwnd,
                         !.pipesize = 0], None)

\* Resume::setup
setup(self, previous_rtt, previous_cwnd) ==
    Returns([self EXCEPT !.enabled = TRUE,
                         !.previous_rtt = previous_rtt,
                         !.previous_cwnd = previous_cwnd], None)

\* Faulty variant of enabled: the phase is not looked at.
enabled_flag_only(self) == self.enabled

\* Resume::enabled
enabled(self) == IF self.enabled THEN self.cr_state # Normal ELSE FALSE

\* Resume::change_state
change_state(self, state, trigger) ==
    [self EXCEPT !.cr_state = state, !.last_trigger = Some(trigger)]

\* usize::saturating_sub
saturating_sub(a, b) == IF a >= b THEN a - b ELSE 0

\* Faulty variant of Jump: previous_cwnd is not halved.
Jump_not_halved(previous_cwnd, cwnd) == saturating_sub(previous_cwnd, cwnd)

\* The jump send_packet computes in Reconnaissance.
Jump(previous_cwnd, cwnd) == saturating_sub(previous_cwnd \div 2, cwnd)

\* Duration * u32 is checked_mul(rhs).expect(..): it panics when the product
\* is not representable.
MulOverflows(d, n) == d * n > DurationMax

\* Faulty variant of RttCheck: a sample equal to a bound counts as similar.
RttCheck_exclusive(current_rtt, previous_rtt) ==
    IF current_rtt < previous_rtt \div 2 THEN "divergent"
    ELSE IF MulOverflows(previous_rtt, 10) THEN "panic"
    ELSE IF current_rtt > previous_rtt * 10 THEN "divergent"
    ELSE "similar"

\* send_packet's comparison of the RTT sample with the previous connection's
\* RTT.  `a || b` evaluates b, and so the product, only when a is false;
\* Duration / u32 truncates.
RttCheck(current_rtt, previous_rtt) ==
    IF current_rtt <= previous_rtt \div 2 THEN "divergent"
    ELSE IF MulOverflows(previous_rtt, 10) THEN "panic"
    ELSE IF current_rtt >= previous_rtt * 10 THEN "divergent"
    ELSE "similar"

\* What send_packet does with an RTT sample in Reconnaissance when jump > 0.
send_packet_rtt(self, current_rtt, cwnd, largest_pkt_sent, jump) ==
    LET check == RttCheck(current_rtt, self.previous_rtt) IN
    IF check = "panic" THEN Panics(self)
    ELSE IF check = "divergent"
    THEN Returns(change_state(self, Normal, "RttNotValidated"), 0)
    ELSE Returns(
            [change_state(self, Unvalidated(largest_pkt_sent), "CwndLimited")
                EXCEPT !.pipesize = cwnd],
            jump)

\* Faulty variant of send_packet_recon: a missing RTT sample is read as
\* Duration::ZERO (unwrap_or_default) instead of returning.
send_packet_recon_rtt_default(self, rtt_sample, cwnd, largest_pkt_sent) ==
    LET jump == Jump(self.previous_cwnd, cwnd) IN
    IF jump = 0
    THEN Returns(change_state(self, Normal, "CwndLimited"), 0)
    ELSE send_packet_rtt(self, IF rtt_sample = None THEN 0 ELSE Unwrap(rtt_sample),
                         cwnd, largest_pkt_sent, jump)

\* The body of send_packet's `if self.cr_state == CrState::Reconnaissance`.
send_packet_recon(self, rtt_sample, cwnd, largest_pkt_sent) ==
    LET jump == Jump(self.previous_cwnd, cwnd) IN
    IF jump = 0
    THEN Returns(change_state(self, Normal, "CwndLimited"), 0)
    ELSE IF rtt_sample = None THEN Returns(self, 0)
    ELSE send_packet_rtt(self, Unwrap(rtt_sample), cwnd, largest_pkt_sent, jump)

\* Faulty variant of send_packet: the phase is not tested.
send_packet_any_phase(self, rtt_sample, cwnd, largest_pkt_sent, app_limited, iw_acked) ==
    IF app_limited THEN Returns(self, 0)
    ELSE IF ~iw_acked THEN Returns(self, 0)
    ELSE send_packet_recon(self, rtt_sample, cwnd, largest_pkt_sent)

\* Faulty variant of send_packet: iw_acked is not tested.
send_packet_no_iw_check(self, rtt_sample, cwnd, largest_pkt_sent, app_limited, iw_acked) ==
    IF app_limited THEN Returns(self, 0)
    ELSE IF self.cr_state = Reconnaissance
    THEN send_packet_recon(self, rtt_sample, cwnd, largest_pkt_sent)
    ELSE Returns(self, 0)

\* Faulty variant of send_packet: Normal is treated like Reconnaissance.
send_packet_late_phase_check(self, rtt_sample, cwnd, largest_pkt_sent, app_limited, iw_acked) ==
    IF app_limited THEN Returns(self, 0)
    ELSE IF ~iw_acked THEN Returns(self, 0)
    ELSE IF self.cr_state \in {Reconnaissance, Normal}
    THEN send_packet_recon(self, rtt_sample, cwnd, largest_pkt_sent)
    ELSE Returns(self, 0)

\* Resume::send_packet
send_packet(self, rtt_sample, cwnd, largest_pkt_sent, app_limited, iw_acked) ==
    IF app_limited THEN Returns(self, 0)
    ELSE IF ~iw_acked THEN Returns(self, 0)
    ELSE IF self.cr_state = Reconnaissance
    THEN send_packet_recon(self, rtt_sample, cwnd, largest_pkt_sent)
    ELSE Returns(self, 0)

\* Faulty variant of add_pipesize: `=` for `+=`.
add_pipesize_overwrites(self, packet) == [self EXCEPT !.pipesize = packet.size]

\* `self.pipesize += packet.size`
add_pipesize(self, packet) == [self EXCEPT !.pipesize = @ + packet.size]

\* Faulty variant of process_ack_unvalidated: the size is added to pipesize
\* only once the mark is acknowledged.
process_ack_unvalidated_at_mark_only(self, first_packet, largest_pkt_sent, packet, flightsize) ==
    IF packet.pkt_num >= first_packet
    THEN LET s == add_pipesize(self, packet) IN
         IF flightsize <= s.pipesize
         THEN Returns(change_state(s, Normal, "CrMarkAcknowledged"),
                      <<Some(s.pipesize), None>>)
         ELSE Returns(change_state(s, Validating(largest_pkt_sent),
                                   "CrMarkAcknowledged"),
                      <<Some(flightsize), None>>)
    ELSE Returns(self, <<None, None>>)

\* Faulty variant of process_ack_unvalidated: flightsize < pipesize.
process_ack_unvalidated_strict(self, first_packet, largest_pkt_sent, packet, flightsize) ==
    LET s == add_pipesize(self, packet) IN
    IF packet.pkt_num >= first_packet
    THEN IF flightsize < s.pipesize
         THEN Returns(change_state(s, Normal, "CrMarkAcknowledged"),
                      <<Some(s.pipesize), None>>)
         ELSE Returns(change_state(s, Validating(largest_pkt_sent),
                                   "CrMarkAcknowledged"),
                      <<Some(flightsize), None>>)
    ELSE Returns(s, <<None, None>>)

\* Faulty variant of process_ack_unvalidated: Validating takes the acked
\* packet's number as its mark.
process_ack_unvalidated_acked_mark(self, first_packet, largest_pkt_sent, packet, flightsize) ==
    LET s == add_pipesize(self, packet) IN
    IF packet.pkt_num >= first_packet
    THEN IF flightsize <= s.pipesize
         THEN Returns(change_state(s, Normal, "CrMarkAcknowledged"),
                      <<Some(s.pipesize), None>>)
         ELSE Returns(change_state(s, Validating(packet.pkt_num),
                                   "CrMarkAcknowledged"),
                      <<Some(flightsize), None>>)
    ELSE Returns(s, <<None, None>>)

\* Faulty variant of process_ack_unvalidated: Validating keeps the mark of
\* Unvalidated.
process_ack_unvalidated_keeps_mark(self, first_packet, largest_pkt_sent, packet, flightsize) ==
    LET s == add_pipesize(self, packet) IN
    IF packet.pkt_num >= first_packet
    THEN IF flightsize <= s.pipesize
         THEN Returns(change_state(s, Normal, "CrMarkAcknowledged"),
                      <<Some(s.pipesize), None>>)
         ELSE Returns(change_state(s, Validating(first_packet),
                                   "CrMarkAcknowledged"),
                      <<Some(flightsize), None>>)
    ELSE Returns(s, <<None, None>>)

\* Faulty variant of process_ack_unvalidated: the new cwnd is pipesize in
\* both branches.
process_ack_unvalidated_returns_pipesize(self, first_packet, largest_pkt_sent, packet, flightsize) ==
    LET s == add_pipesize(self, packet) IN
    IF packet.pkt_num >= first_packet
    THEN IF flightsize <= s.pipesize
         THEN Returns(change_state(s, Normal, "CrMarkAcknowledged"),
                      <<Some(s.pipesize), None>>)
         ELSE Returns(change_state(s, Validating(largest_pkt_sent),
                                   "CrMarkAcknowledged"),
                      <<Some(s.pipesize), None>>)
    ELSE Returns(s, <<None, None>>)

\* process_ack's arm CrState::Unvalidated(first_packet)
process_ack_unvalidated(self, first_packet, largest_pkt_sent, packet, flightsize) ==
    LET s == add_pipesize(self, packet) IN
    IF packet.pkt_num >= first_packet
    THEN IF flightsize <= s.pipesize
         THEN Returns(change_state(s, Normal, "CrMarkAcknowledged"),
                      <<Some(s.pipesize), None>>)
         ELSE Returns(change_state(s, Validating(largest_pkt_sent),
                                   "CrMarkAcknowledged"),
                      <<Some(flightsize), None>>)
    ELSE Returns(s, <<None, None>>)

\* Faulty variant of process_ack_validating: pkt_num > last_packet.
process_ack_validating_strict(self, last_packet, packet) ==
    LET s == add_pipesize(self, packet) IN
    IF packet.pkt_num > last_packet
    THEN Returns(change_state(s, Normal, "CrMarkAcknowledged"), <<None, None>>)
    ELSE Returns(s, <<None, None>>)

\* Faulty variant of process_ack_validating: the trigger is ExitRecovery, as
\* in the SafeRetreat arm.
process_ack_validating_exit_recovery(self, last_packet, packet) ==
    LET s == add_pipesize(self, packet) IN
    IF packet.pkt_num >= last_packet
    THEN Returns(change_state(s, Normal, "ExitRecovery"), <<None, None>>)
    ELSE Returns(s, <<None, None>>)

\* process_ack's arm CrState::Validating(last_packet)
process_ack_validating(self, last_packet, packet) ==
    LET s == add_pipesize(self, packet) IN
    IF packet.pkt_num >= last_packet
    THEN Returns(change_state(s, Normal, "CrMarkAcknowledged"), <<None, None>>)
    ELSE Returns(s, <<None, None>>)

\* Faulty variant of process_ack_safe_retreat: the size is added to pipesize
\* before the comparison with the mark, as in the other two arms.
process_ack_safe_retreat_adds_first(self, last_packet, packet) ==
    LET s == add_pipesize(self, packet) IN
    IF packet.pkt_num >= last_packet
    THEN Returns(change_state(s, Normal, "ExitRecovery"),
                 <<None, Some(s.pipesize)>>)
    ELSE Returns(s, <<None, None>>)

\* Faulty variant of process_ack_safe_retreat: the ssthresh is half the
\* pipesize.
process_ack_safe_retreat_halves(self, last_packet, packet) ==
    IF packet.pkt_num >= last_packet
    THEN Returns(change_state(self, Normal, "ExitRecovery"),
                 <<None, Some(self.pipesize \div 2)>>)
    ELSE Returns(add_pipesize(self, packet), <<None, None>>)

\* Faulty variant of process_ack_safe_retreat: pipesize is returned as the
\* new cwnd too.
process_ack_safe_retreat_both(self, last_packet, packet) ==
    IF packet.pkt_num >= last_packet
    THEN Returns(change_state(self, Normal, "ExitRecovery"),
                 <<Some(self.pipesize), Some(self.pipesize)>>)
    ELSE Returns(add_pipesize(self, packet), <<None, None>>)

\* process_ack's arm CrState::SafeRetreat(last_packet)
process_ack_safe_retreat(self, last_packet, packet) ==
    IF packet.pkt_num >= last_packet
    THEN Returns(change_state(self, Normal, "ExitRecovery"),
                 <<None, Some(self.pipesize)>>)
    ELSE Returns(add_pipesize(self, packet), <<None, None>>)

\* Faulty variant of process_ack: pipesize grows with total_acked, in every
\* phase.
process_ack_adds_always(self, largest_pkt_sent, packet, flightsize) ==
    LET s == [self EXCEPT !.total_acked = @ + packet.size] IN
    CASE Tag(s.cr_state) = "Unvalidated" ->
            process_ack_unvalidated(s, Mark(s.cr_state), largest_pkt_sent,
                                    packet, flightsize)
      [] Tag(s.cr_state) = "Validating" ->
            process_ack_validating(s, Mark(s.cr_state), packet)
      [] Tag(s.cr_state) = "SafeRetreat" ->
            process_ack_safe_retreat(s, Mark(s.cr_state), packet)
      [] OTHER -> Returns(add_pipesize(s, packet), <<None, None>>)

\* Faulty variant of process_ack: the size is counted in total_acked only
\* during a jump.
process_ack_counts_in_jump(self, largest_pkt_sent, packet, flightsize) ==
    LET s == [self EXCEPT !.total_acked = @ + packet.size] IN
    CASE Tag(s.cr_state) = "Unvalidated" ->
            process_ack_unvalidated(s, Mark(s.cr_state), largest_pkt_sent,
                                    packet, flightsize)
      [] Tag(s.cr_state) = "Validating" ->
            process_ack_validating(s, Mark(s.cr_state), packet)
      [] Tag(s.cr_state) = "SafeRetreat" ->
            process_ack_safe_retreat(s, Mark(s.cr_state), packet)
      [] OTHER -> Returns(self, <<None, None>>)

\* Resume::process_ack; packet is the Acked record: [pkt_num, size].
process_ack(self, largest_pkt_sent, packet, flightsize) ==
    LET s == [self EXCEPT !.total_acked = @ + packet.size] IN
    CASE Tag(s.cr_state) = "Unvalidated" ->
            process_ack_unvalidated(s, Mark(s.cr_state), largest_pkt_sent,
                                    packet, flightsize)
      [] Tag(s.cr_state) = "Validating" ->
            process_ack_validating(s, Mark(s.cr_state), packet)
      [] Tag(s.cr_state) = "SafeRetreat" ->
            process_ack_safe_retreat(s, Mark(s.cr_state), packet)
      [] OTHER -> Returns(s, <<None, None>>)

\* Faulty variant of congestion_event: a loss in SafeRetreat takes a new mark.
congestion_event_rearm(self, largest_pkt_sent) ==
    CASE Tag(self.cr_state) \in {"Unvalidated", "SafeRetreat"} ->
            Returns(change_state(self, SafeRetreat(largest_pkt_sent), "PacketLoss"),
                    self.pipesize \div 2)
      [] Tag(self.cr_state) = "Validating" ->
            Returns(change_state(self, SafeRetreat(Mark(self.cr_state)), "PacketLoss"),
                    self.pipesize \div 2)
      [] Tag(self.cr_state) = "Reconnaissance" ->
            Returns(change_state(self, Normal, "PacketLoss"), 0)
      [] OTHER -> Returns(self, 0)

\* Faulty variant of congestion_event: in Unvalidated the hint is the whole
\* pipesize.
congestion_event_hint_whole(self, largest_pkt_sent) ==
    CASE Tag(self.cr_state) = "Unvalidated" ->
            Returns(change_state(self, SafeRetreat(largest_pkt_sent), "PacketLoss"),
                    self.pipesize)
      [] Tag(self.cr_state) = "Validating" ->
            Returns(change_state(self, SafeRetreat(Mark(self.cr_state)), "PacketLoss"),
                    self.pipesize \div 2)
      [] Tag(self.cr_state) = "Reconnaissance" ->
            Returns(change_state(self, Normal, "PacketLoss"), 0)
      [] OTHER -> Returns(self, 0)

\* Faulty variant of congestion_event: from Validating, SafeRetreat takes
\* largest_pkt_sent as its mark.
congestion_event_new_mark(self, largest_pkt_sent) ==
    CASE Tag(self.cr_state) \in {"Unvalidated", "Validating"} ->
            Returns(change_state(self, SafeRetreat(largest_pkt_sent), "PacketLoss"),
                    self.pipesize \div 2)
      [] Tag(self.cr_state) = "Reconnaissance" ->
            Returns(change_state(self, Normal, "PacketLoss"), 0)
      [] OTHER -> Returns(self, 0)

\* Faulty variant of congestion_event: a loss in Reconnaissance is ignored.
congestion_event_recon_ignored(self, largest_pkt_sent) ==
    CASE Tag(self.cr_state) = "Unvalidated" ->
            Returns(change_state(self, SafeRetreat(largest_pkt_sent), "PacketLoss"),
                    self.pipesize \div 2)
      [] Tag(self.cr_state) = "Validating" ->
            Returns(change_state(self, SafeRetreat(Mark(self.cr_state)), "PacketLoss"),
                    self.pipesize \div 2)
      [] OTHER -> Returns(self, 0)

\* Resume::congestion_event
congestion_event(self, largest_pkt_sent) ==
    CASE Tag(self.cr_state) = "Unvalidated" ->
            Returns(change_state(self, SafeRetreat(largest_pkt_sent), "PacketLoss"),
                    self.pipesize \div 2)
      [] Tag(self.cr_state) = "Validating" ->
            Returns(change_state(self, SafeRetreat(Mark(self.cr_state)), "PacketLoss"),
                    self.pipesize \div 2)
      [] Tag(self.cr_state) = "Reconnaissance" ->
            Returns(change_state(self, Normal, "PacketLoss"), 0)
      [] OTHER -> Returns(self, 0)

\* ---------------------------------------------------------- QlogMetrics
\* #[derive(Default)] struct QlogMetrics
QlogMetrics_default ==
    [state |-> None, pipesize |-> 0, cwnd |-> 0, ssthresh |-> 0,
     trigger |-> None, previous_rtt |-> 0, previous_cwnd |-> 0]

\* QlogMetrics::map_state: the CarefulResumePhase of a CrState.
map_state(state) ==
    CASE state = Reconnaissance -> "Reconnaissance"
      [] state = Normal -> "Normal"
      [] Tag(state) = "Unvalidated" -> "Unvalidated"
      [] Tag(state) = "Validating" -> "Validating"
      [] Tag(state) = "SafeRetreat" -> "SafeRetreat"

\* Faulty variant of map_cr_mark: the mark of Unvalidated only.
map_cr_mark_unvalidated_only(state) ==
    IF Tag(state) = "Unvalidated" THEN Mark(state) ELSE 0

\* QlogMetrics::map_cr_mark
map_cr_mark(state) ==
    IF state \in {Reconnaissance, Normal} THEN 0 ELSE Mark(state)

\* `old_state.map(Self::map_state)`
map_old(old_state) ==
    IF old_state = None THEN None ELSE Some(map_state(Unwrap(old_state)))

\* The CarefulResumePhaseUpdated event QlogMetrics::maybe_update builds.
\* previous_rtt is left a Duration; its conversion to f32 milliseconds is
\* not modelled.
PhaseUpdated(old_state, new_state, latest) ==
    [old |-> map_old(old_state),
     new |-> map_state(new_state),
     state_data |-> [pipesize |-> latest.pipesize,
                     cr_mark |-> map_cr_mark(new_state),
                     congestion_window |-> Some(latest.cwnd),
                     ssthresh |-> Some(latest.ssthresh)],
     restored_data |->
        IF latest.previous_rtt # 0 \/ latest.previous_cwnd # 0
        THEN Some([previous_congestion_window |-> latest.previous_cwnd,
                   previous_rtt |-> latest.previous_rtt])
        ELSE None,
     trigger |-> latest.trigger]

\* Faulty variant of QlogMetrics_maybe_update: a change of pipesize is
\* reported too.
QlogMetrics_maybe_update_pipesize(self, latest) ==
    IF latest.state # None
    THEN LET new_state == Unwrap(latest.state) IN
         IF self.state # Some(new_state) \/ self.pipesize # latest.pipesize
         THEN [self |-> latest,
               ret |-> Some(PhaseUpdated(self.state, new_state, latest))]
         ELSE [self |-> self, ret |-> None]
    ELSE [self |-> self, ret |-> None]

\* Faulty variant of QlogMetrics_maybe_update: the new state is not stored.
QlogMetrics_maybe_update_forgets(self, latest) ==
    IF latest.state # None
    THEN LET new_state == Unwrap(latest.state) IN
         IF self.state # Some(new_state)
         THEN [self |-> [latest EXCEPT !.state = self.state],
               ret |-> Some(PhaseUpdated(self.state, new_state, latest))]
         ELSE [self |-> self, ret |-> None]
    ELSE [self |-> self, ret |-> None]

\* QlogMetrics::maybe_update; ret is the Option<EventData>.
QlogMetrics_maybe_update(self, latest) ==
    IF latest.state # None
    THEN LET new_state == Unwrap(latest.state) IN
         IF self.state # Some(new_state)
         THEN [self |-> [self EXCEPT !.state = Some(new_state),
                                     !.pipesize = latest.pipesize,
                                     !.trigger = latest.trigger,
                                     !.cwnd = latest.cwnd,
                                     !.ssthresh = latest.ssthresh,
                                     !.previous_rtt = latest.previous_rtt,
                                     !.previous_cwnd = latest.previous_cwnd],
               ret |-> Some(PhaseUpdated(self.state, new_state, latest))]
         ELSE [self |-> self, ret |-> None]
    ELSE [self |-> self, ret |-> None]

\* Resume::maybe_qlog; `stored` is the field self.qlog_metrics, which the
\* model keeps beside the other fields of the instance.
maybe_qlog(self, stored, cwnd, ssthresh) ==
    LET latest == [state |-> Some(self.cr_state),
                   pipesize |-> self.pipesize,
                   cwnd |-> cwnd,
                   ssthresh |-> ssthresh,
                   trigger |-> self.last_trigger,
                   previous_rtt |-> self.previous_rtt,
                   previous_cwnd |-> self.previous_cwnd]
    IN  QlogMetrics_maybe_update(stored, latest)

\* ---------------------------------------------------------------- state
\* A behaviour is a sequence of calls the host makes on one instance.  The
\* host may make any call with any arguments at any time.  The last call of
\* the sequence is recorded, with its arguments, the value it returned and the
\* instance before it; the calls before it are not.  Every reachable instance
\* is followed by every call, so what holds of the recorded call holds of
\* every call of every sequence.
VARIABLES
    resume,         \* the Resume instance
    jumps,          \* how many send_packet calls so far returned a non-zero jump
    configured,     \* whether setup has been called
    retreat_pipe,   \* pipesize when SafeRetreat was entered, plus the sizes of
                    \* the packets below the mark acknowledged in SafeRetreat
    acked_sum,      \* the sum of the sizes of the packets passed to process_ack
    hint,           \* what congestion_event returned when it entered SafeRetreat
    tally,          \* how many process_ack calls returned a new cwnd, how many
                    \* a new ssthresh, how many congestion_event calls changed
                    \* the phase
    pre,            \* the instance before the recorded call
    call,           \* the recorded call: method, arguments, value returned
    sent,           \* the largest_pkt_sent of the latest call of a host that
                    \* passes accurate packet numbers (SpecOrdered)
    metrics,        \* the CRMetrics instance (SpecObserver)
    now,            \* what Instant::now() reads, in seconds since CRMetrics::new
    calls,          \* how many maybe_update calls were made
    sample,         \* the latest sample maybe_update returned, and when
    before,         \* the CRMetrics instance before the latest maybe_update
    update,         \* the latest maybe_update: arguments, time, value returned
    qlog_metrics,   \* the field qlog_metrics of the Resume instance
    told,           \* the new phase of the latest event maybe_qlog returned
    logged,         \* the latest maybe_qlog call, when no send_packet,
                    \* process_ack or congestion_event was called since
    moved,          \* the phase before the latest send_packet, process_ack
                    \* or congestion_event
    logs,           \* how many maybe_qlog calls were made since that call
    missed,         \* whether one of those calls was made with no maybe_qlog
                    \* call since the one before it
    qlog_calls,     \* how many maybe_qlog calls were made
    good_acks       \* how many acknowledgements of everything sent so far
                    \* were passed in a phase with a mark (SpecAcks)

resume_vars ==
    <<resume, jumps, configured, retreat_pipe, acked_sum, hint, tally, pre,
      call, sent>>
observer_vars == <<metrics, now, calls, sample, before, update>>
qlog_vars == <<qlog_metrics, told, logged, moved, logs, missed, qlog_calls>>
vars == <<resume_vars, observer_vars, qlog_vars, good_acks>>

NoArgs == [none |-> TRUE]
NoCall == [op |-> "none", args |-> NoArgs, ret |-> None, panic |-> FALSE]
NoUpdate ==
    [called |-> FALSE, new_min_rtt |-> 0, new_cwnd |-> 0, at |-> 0,
     ret |-> None, prior |-> None]

\* A connection's Resume instance right after Resume::new.
NewResume ==
    /\ resume = new
    /\ jumps = 0
    /\ configured = FALSE
    /\ retreat_pipe = 0
    /\ acked_sum = 0
    /\ hint = None
    /\ tally = [cwnds |-> 0, ssthreshs |-> 0, moves |-> 0]
    /\ pre = new
    /\ call = NoCall
    /\ sent = 0

\* No CRMetrics instance has been created.
NoObserver ==
    /\ metrics = None
    /\ now = 0
    /\ calls = 0
    /\ sample = None
    /\ before = None
    /\ update = NoUpdate

NoLog == [cwnd |-> 0, ssthresh |-> 0, ret |-> None, prior |-> None]

\* maybe_qlog has not been called.
NoQlog ==
    /\ qlog_metrics = QlogMetrics_default
    /\ told = None
    /\ logged = NoLog
    /\ moved = None
    /\ logs = 0
    /\ missed = FALSE
    /\ qlog_calls = 0

Init == NewResume /\ NoObserver /\ NoQlog /\ good_acks = 0

\* The count of non-zero jumps after a call; it stops counting at 2.
CountJump(op, res) ==
    IF op = "send_packet" /\ ~res.panic /\ res.ret # 0 /\ jumps < 2
    THEN jumps + 1
    ELSE jumps

\* retreat_pipe after a call: the pipesize with which SafeRetreat is entered,
\* then the sizes of the packets below the mark passed to process_ack.
CountRetreat(op, args, res) ==
    IF Tag(resume.cr_state) # "SafeRetreat" /\ Tag(res.self.cr_state) = "SafeRetreat"
    THEN res.self.pipesize
    ELSE IF /\ op = "process_ack"
            /\ Tag(resume.cr_state) = "SafeRetreat"
            /\ args.pkt_num < Mark(resume.cr_state)
    THEN retreat_pipe + args.size
    ELSE retreat_pipe

\* acked_sum after a call.
CountAcked(op, args) ==
    IF op = "process_ack" THEN acked_sum + args.size ELSE acked_sum

\* hint after a call.
CountHint(op, res) ==
    IF /\ op = "congestion_event"
       /\ Tag(resume.cr_state) # "SafeRetreat"
       /\ Tag(res.self.cr_state) = "SafeRetreat"
    THEN Some(res.ret)
    ELSE hint

\* A count that stops at 2.
Bump(n) == IF n < 2 THEN n + 1 ELSE n

\* tally after a call.
CountTally(op, res) ==
    [cwnds |-> IF op = "process_ack" /\ res.ret[1] # None
               THEN Bump(tally.cwnds) ELSE tally.cwnds,
     ssthreshs |-> IF op = "process_ack" /\ res.ret[2] # None
                   THEN Bump(tally.ssthreshs) ELSE tally.ssthreshs,
     moves |-> IF op = "congestion_event" /\ res.self.cr_state # resume.cr_state
               THEN Bump(tally.moves) ELSE tally.moves]

\* The host goes on calling until the recorded call; a panic unwinds out of the
\* connection, so a call that panics is the last call and is recorded.
Running == call.op = "none"

\* What a call of a method does to the instance; res is what the method
\* leaves behind.
Step(op, args, res) ==
    /\ resume' = res.self
    /\ jumps' = CountJump(op, res)
    /\ configured' = (configured \/ op = "setup")
    /\ retreat_pipe' = CountRetreat(op, args, res)
    /\ acked_sum' = CountAcked(op, args)
    /\ hint' = CountHint(op, res)
    /\ tally' = CountTally(op, res)
    /\ UNCHANGED observer_vars

\* One call of a method by the host, which may be the recorded one.
Call(op, args, res) ==
    /\ Step(op, args, res)
    /\ \E last \in BOOLEAN :
        IF last \/ res.panic
        THEN /\ pre' = resume
             /\ call' = [op |-> op, args |-> args, ret |-> res.ret,
                         panic |-> res.panic]
        ELSE UNCHANGED <<pre, call>>
    /\ UNCHANGED <<qlog_vars, good_acks>>

Setup ==
    /\ Running
    /\ \E previous_rtt \in PrevRtts, previous_cwnd \in PrevCwnds :
        Call("setup",
             [previous_rtt |-> previous_rtt, previous_cwnd |-> previous_cwnd],
             setup(resume, previous_rtt, previous_cwnd))
    /\ UNCHANGED sent

SendPacket ==
    /\ Running
    /\ \E rtt_sample \in RttSamples, cwnd \in Cwnds, largest_pkt_sent \in PktNums,
       app_limited \in BOOLEAN, iw_acked \in BOOLEAN :
        Call("send_packet",
             [rtt_sample |-> rtt_sample, cwnd |-> cwnd,
              largest_pkt_sent |-> largest_pkt_sent,
              app_limited |-> app_limited, iw_acked |-> iw_acked],
             send_packet(resume, rtt_sample, cwnd, largest_pkt_sent,
                         app_limited, iw_acked))
    /\ UNCHANGED sent

ProcessAck ==
    /\ Running
    /\ \E largest_pkt_sent \in PktNums, pkt_num \in PktNums, size \in Sizes,
       flightsize \in Flights :
        /\ resume.total_acked + size <= MaxBytes
        /\ Call("process_ack",
                [largest_pkt_sent |-> largest_pkt_sent, pkt_num |-> pkt_num,
                 size |-> size, flightsize |-> flightsize],
                process_ack(resume, largest_pkt_sent,
                            [pkt_num |-> pkt_num, size |-> size], flightsize))
    /\ UNCHANGED sent

CongestionEvent ==
    /\ Running
    /\ \E largest_pkt_sent \in PktNums :
        Call("congestion_event",
             [largest_pkt_sent |-> largest_pkt_sent],
             congestion_event(resume, largest_pkt_sent))
    /\ UNCHANGED sent

Next ==
    \/ Setup
    \/ SendPacket
    \/ ProcessAck
    \/ CongestionEvent

Spec == Init /\ [][Next]_vars

\* ---------------------------------------------------- an accurate host
\* A host that passes accurate packet numbers: largest_pkt_sent never goes
\* down from one call to the next, and no packet is acknowledged that was not
\* sent.  setup takes no packet number.
OrderedSendPacket ==
    /\ Running
    /\ \E rtt_sample \in RttSamples, cwnd \in Cwnds, largest_pkt_sent \in PktNums,
       app_limited \in BOOLEAN, iw_acked \in BOOLEAN :
        /\ largest_pkt_sent >= sent
        /\ sent' = largest_pkt_sent
        /\ Call("send_packet",
                [rtt_sample |-> rtt_sample, cwnd |-> cwnd,
                 largest_pkt_sent |-> largest_pkt_sent,
                 app_limited |-> app_limited, iw_acked |-> iw_acked],
                send_packet(resume, rtt_sample, cwnd, largest_pkt_sent,
                            app_limited, iw_acked))

OrderedProcessAck ==
    /\ Running
    /\ \E largest_pkt_sent \in PktNums, pkt_num \in PktNums, size \in Sizes,
       flightsize \in Flights :
        /\ largest_pkt_sent >= sent
        /\ pkt_num <= largest_pkt_sent
        /\ resume.total_acked + size <= MaxBytes
        /\ sent' = largest_pkt_sent
        /\ Call("process_ack",
                [largest_pkt_sent |-> largest_pkt_sent, pkt_num |-> pkt_num,
                 size |-> size, flightsize |-> flightsize],
                process_ack(resume, largest_pkt_sent,
                            [pkt_num |-> pkt_num, size |-> size], flightsize))

OrderedCongestionEvent ==
    /\ Running
    /\ \E largest_pkt_sent \in PktNums :
        /\ largest_pkt_sent >= sent
        /\ sent' = largest_pkt_sent
        /\ Call("congestion_event",
                [largest_pkt_sent |-> largest_pkt_sent],
                congestion_event(resume, largest_pkt_sent))

NextOrdered ==
    \/ Setup
    \/ OrderedSendPacket
    \/ OrderedProcessAck
    \/ OrderedCongestionEvent

SpecOrdered == Init /\ [][NextOrdered]_vars

\* ------------------------------------------- a host that goes on calling
\* One call of a method by a host that goes on calling: no call is recorded
\* but one that panics, which ends the calls.  The counts kept for Spec are
\* not kept.
Hook(op, args, res) ==
    /\ resume' = res.self
    /\ IF res.panic
       THEN /\ pre' = resume
            /\ call' = [op |-> op, args |-> args, ret |-> res.ret,
                        panic |-> TRUE]
       ELSE UNCHANGED <<pre, call>>
    /\ UNCHANGED <<jumps, configured, retreat_pipe, acked_sum, hint, tally,
                   observer_vars>>

\* ----------------------------------------------- acknowledgements arrive
\* The host makes any call at any time; sent is the largest largest_pkt_sent
\* it has passed so far.
Largest(largest_pkt_sent) ==
    IF largest_pkt_sent >= sent THEN largest_pkt_sent ELSE sent

\* The instance is in a phase with a mark and the packet acknowledged is not
\* below any largest_pkt_sent passed so far, that of this call included.
Good(largest_pkt_sent, pkt_num) ==
    /\ Tag(resume.cr_state) \in {"Unvalidated", "Validating", "SafeRetreat"}
    /\ pkt_num >= Largest(largest_pkt_sent)

AcksSetup ==
    /\ Running
    /\ \E previous_rtt \in PrevRtts, previous_cwnd \in PrevCwnds :
        Hook("setup",
             [previous_rtt |-> previous_rtt, previous_cwnd |-> previous_cwnd],
             setup(resume, previous_rtt, previous_cwnd))
    /\ UNCHANGED <<sent, good_acks, qlog_vars>>

AcksSendPacket ==
    /\ Running
    /\ \E rtt_sample \in RttSamples, cwnd \in Cwnds, largest_pkt_sent \in PktNums,
       app_limited \in BOOLEAN, iw_acked \in BOOLEAN :
        /\ sent' = Largest(largest_pkt_sent)
        /\ Hook("send_packet",
                [rtt_sample |-> rtt_sample, cwnd |-> cwnd,
                 largest_pkt_sent |-> largest_pkt_sent,
                 app_limited |-> app_limited, iw_acked |-> iw_acked],
                send_packet(resume, rtt_sample, cwnd, largest_pkt_sent,
                            app_limited, iw_acked))
    /\ UNCHANGED <<good_acks, qlog_vars>>

\* One process_ack call.
Ack(largest_pkt_sent, pkt_num, size, flightsize) ==
    /\ resume.total_acked + size <= MaxBytes
    /\ sent' = Largest(largest_pkt_sent)
    /\ Hook("process_ack",
            [largest_pkt_sent |-> largest_pkt_sent, pkt_num |-> pkt_num,
             size |-> size, flightsize |-> flightsize],
            process_ack(resume, largest_pkt_sent,
                        [pkt_num |-> pkt_num, size |-> size], flightsize))
    /\ UNCHANGED qlog_vars

GoodAck ==
    /\ Running
    /\ \E largest_pkt_sent \in PktNums, pkt_num \in PktNums, size \in Sizes,
       flightsize \in Flights :
        /\ Good(largest_pkt_sent, pkt_num)
        /\ Ack(largest_pkt_sent, pkt_num, size, flightsize)
        /\ good_acks' = Bump(good_acks)

OtherAck ==
    /\ Running
    /\ \E largest_pkt_sent \in PktNums, pkt_num \in PktNums, size \in Sizes,
       flightsize \in Flights :
        /\ ~Good(largest_pkt_sent, pkt_num)
        /\ Ack(largest_pkt_sent, pkt_num, size, flightsize)
        /\ UNCHANGED good_acks

AcksCongestionEvent ==
    /\ Running
    /\ \E largest_pkt_sent \in PktNums :
        /\ sent' = Largest(largest_pkt_sent)
        /\ Hook("congestion_event",
                [largest_pkt_sent |-> largest_pkt_sent],
                congestion_event(resume, largest_pkt_sent))
    /\ UNCHANGED <<good_acks, qlog_vars>>

NextAcks ==
    \/ AcksSetup
    \/ AcksSendPacket
    \/ GoodAck
    \/ OtherAck
    \/ AcksCongestionEvent

\* Acknowledgements of everything sent so far keep arriving.
SpecAcks == Init /\ [][NextAcks]_vars /\ WF_vars(GoodAck)

\* ------------------------------------------------- a host that may log
\* What setup is given by this host: previous_rtt and previous_cwnd.
Restored == {<<1, MaxPrevCwnd>>}

\* What maybe_qlog is given: cwnd and ssthresh.
Windows == {<<1, MaxCwnd>>, <<MaxCwnd, 1>>}

\* maybe_qlog has not been called since the latest send_packet, process_ack
\* or congestion_event.
Due == moved # None /\ logs = 0

\* One call of send_packet, process_ack or congestion_event by a host that
\* goes on calling; the phase before it is kept.
Logged(op, args, res) ==
    /\ Hook(op, args, res)
    /\ moved' = Some(resume.cr_state)
    /\ logs' = 0
    /\ logged' = NoLog
    /\ missed' = (missed \/ Due)
    /\ UNCHANGED <<qlog_metrics, told, qlog_calls, sent, good_acks>>

QlogSetup ==
    /\ Running
    /\ \E previous \in Restored :
        Hook("setup",
             [previous_rtt |-> previous[1], previous_cwnd |-> previous[2]],
             setup(resume, previous[1], previous[2]))
    /\ UNCHANGED <<qlog_vars, sent, good_acks>>

QlogSendPacket ==
    /\ Running
    /\ \E rtt_sample \in RttSamples, cwnd \in Cwnds, largest_pkt_sent \in PktNums,
       app_limited \in BOOLEAN, iw_acked \in BOOLEAN :
        Logged("send_packet",
               [rtt_sample |-> rtt_sample, cwnd |-> cwnd,
                largest_pkt_sent |-> largest_pkt_sent,
                app_limited |-> app_limited, iw_acked |-> iw_acked],
               send_packet(resume, rtt_sample, cwnd, largest_pkt_sent,
                           app_limited, iw_acked))

QlogProcessAck ==
    /\ Running
    /\ \E largest_pkt_sent \in PktNums, pkt_num \in PktNums, size \in Sizes,
       flightsize \in Flights :
        /\ resume.total_acked + size <= MaxBytes
        /\ Logged("process_ack",
                  [largest_pkt_sent |-> largest_pkt_sent, pkt_num |-> pkt_num,
                   size |-> size, flightsize |-> flightsize],
                  process_ack(resume, largest_pkt_sent,
                              [pkt_num |-> pkt_num, size |-> size], flightsize))

QlogCongestionEvent ==
    /\ Running
    /\ \E largest_pkt_sent \in PktNums :
        Logged("congestion_event",
               [largest_pkt_sent |-> largest_pkt_sent],
               congestion_event(resume, largest_pkt_sent))

\* One call of maybe_qlog.
MaybeQlog ==
    /\ Running
    /\ \E window \in Windows :
        LET res == maybe_qlog(resume, qlog_metrics, window[1], window[2]) IN
        /\ qlog_metrics' = res.self
        /\ told' = IF res.ret # None THEN Some(Unwrap(res.ret).new) ELSE told
        /\ logged' = [cwnd |-> window[1], ssthresh |-> window[2],
                      ret |-> res.ret, prior |-> told]
    /\ logs' = Bump(logs)
    /\ qlog_calls' = Bump(qlog_calls)
    /\ UNCHANGED <<resume, jumps, configured, retreat_pipe, acked_sum, hint,
                   tally, pre, call, sent, moved, missed, good_acks,
                   observer_vars>>

\* The host makes any call at any time.
NextQlog ==
    \/ QlogSetup
    \/ QlogSendPacket
    \/ QlogProcessAck
    \/ QlogCongestionEvent
    \/ MaybeQlog

SpecQlog == Init /\ [][NextQlog]_vars

\* ------------------------------------------------------------ CRMetrics
\* The observer.  Its durations are in nanoseconds, the resolution of
\* Duration; Instant::now() is read in whole seconds.  The f64 arithmetic of
\* maybe_update is exact arithmetic here: `x < m - m * (1.0 / secs)` is
\* `x * secs < m * secs - m`.  Byte counts stay far below usize::MAX.
CR_EVENT_MAXIMUM_GAP == 60      \* seconds
NanosPerMicro == 1000

MaxCalls == 3        \* the host makes at most MaxCalls maybe_update calls

\* The iw given to CRMetrics::new.
Iws == {1000}
\* The new_cwnd arguments.
ObsCwnds == {3999, 4000, 6000, 8000}
\* The new_min_rtt arguments: 25 ms, 50 ms, 50 ms and 999 ns, 100 ms.
MinRtts == {25000000, 50000000, 50000999, 100000000}
\* The seconds that pass between two reads of the clock.
Advances == {0, 1, 2, 59, 61}

\* Duration::as_micros: whole microseconds, the rest is dropped.
as_micros(d) == d \div NanosPerMicro

\* CRMetrics::new at the instant `at`
CRMetrics_new(iw, at) ==
    [iw |-> iw, min_rtt |-> 0, cwnd |-> 0, last_update |-> at]

\* Faulty variant of TooSmall: iw is not multiplied by 4.
TooSmall_iw(self, new_cwnd) == new_cwnd < self.iw

\* `new_cwnd < self.iw * 4`
TooSmall(self, new_cwnd) == new_cwnd < self.iw * 4

\* Faulty variant of GapExceeded: `>=` for `>`.
GapExceeded_inclusive(time_since_last_update) ==
    time_since_last_update >= CR_EVENT_MAXIMUM_GAP

\* `time_since_last_update > CR_EVENT_MAXIMUM_GAP`
GapExceeded(time_since_last_update) ==
    time_since_last_update > CR_EVENT_MAXIMUM_GAP

\* Faulty variant of OutsideRange: `<=` and `>=` for `<` and `>`.
OutsideRange_exclusive(x, stored, secs) ==
    \/ x * secs <= stored * secs - stored
    \/ x * secs >= stored * secs + stored

\* `x < stored - stored * range || x > stored + stored * range`, where
\* range = 1.0 / secs and secs > 0.
OutsideRange(x, stored, secs) ==
    \/ x * secs < stored * secs - stored
    \/ x * secs > stored * secs + stored

\* Faulty variant of should_update: no time elapsed counts as a change.
should_update_zero_emits(self, new_min_rtt, new_cwnd, time_since_last_update) ==
    IF TooSmall(self, new_cwnd) THEN FALSE
    ELSE IF GapExceeded(time_since_last_update) THEN TRUE
    ELSE IF time_since_last_update = 0 THEN TRUE
    ELSE \/ OutsideRange(as_micros(new_min_rtt), as_micros(self.min_rtt),
                         time_since_last_update)
         \/ OutsideRange(new_cwnd, self.cwnd, time_since_last_update)

\* `let should_update = ...` of CRMetrics::maybe_update
should_update(self, new_min_rtt, new_cwnd, time_since_last_update) ==
    IF TooSmall(self, new_cwnd) THEN FALSE
    ELSE IF GapExceeded(time_since_last_update) THEN TRUE
    ELSE IF time_since_last_update = 0 THEN FALSE
    ELSE \/ OutsideRange(as_micros(new_min_rtt), as_micros(self.min_rtt),
                         time_since_last_update)
         \/ OutsideRange(new_cwnd, self.cwnd, time_since_last_update)

\* Faulty variant of maybe_update: the sample is returned, not stored.
maybe_update_keeps_sample(self, new_min_rtt, new_cwnd, instant) ==
    IF should_update(self, new_min_rtt, new_cwnd, instant - self.last_update)
    THEN [self |-> [self EXCEPT !.last_update = instant],
          ret |-> Some([min_rtt |-> new_min_rtt, cwnd |-> new_cwnd])]
    ELSE [self |-> self, ret |-> None]

\* Faulty variant of maybe_update: last_update is set on every call.
maybe_update_touches(self, new_min_rtt, new_cwnd, instant) ==
    IF should_update(self, new_min_rtt, new_cwnd, instant - self.last_update)
    THEN [self |-> [self EXCEPT !.min_rtt = new_min_rtt,
                                !.cwnd = new_cwnd,
                                !.last_update = instant],
          ret |-> Some([min_rtt |-> new_min_rtt, cwnd |-> new_cwnd])]
    ELSE [self |-> [self EXCEPT !.last_update = instant], ret |-> None]

\* CRMetrics::maybe_update, when Instant::now() reads `instant`; ret is the
\* Option<CREvent>.
maybe_update(self, new_min_rtt, new_cwnd, instant) ==
    IF should_update(self, new_min_rtt, new_cwnd, instant - self.last_update)
    THEN [self |-> [self EXCEPT !.min_rtt = new_min_rtt,
                                !.cwnd = new_cwnd,
                                !.last_update = instant],
          ret |-> Some([min_rtt |-> new_min_rtt, cwnd |-> new_cwnd])]
    ELSE [self |-> self, ret |-> None]

\* The host creates a CRMetrics instance; the clock starts at its creation.
InitObserver ==
    /\ NewResume
    /\ NoQlog
    /\ good_acks = 0
    /\ \E iw \in Iws : metrics = CRMetrics_new(iw, 0)
    /\ now = 0
    /\ calls = 0
    /\ sample = None
    /\ before = metrics
    /\ update = NoUpdate

\* Some time passes and the host calls maybe_update, which reads the clock.
MaybeUpdate ==
    /\ calls < MaxCalls
    /\ \E advance \in Advances, new_min_rtt \in MinRtts, new_cwnd \in ObsCwnds :
        LET instant == now + advance
            res == maybe_update(metrics, new_min_rtt, new_cwnd, instant)
        IN  /\ metrics' = res.self
            /\ now' = instant
            /\ calls' = calls + 1
            /\ sample' = IF res.ret # None
                          THEN Some([min_rtt |-> new_min_rtt, cwnd |-> new_cwnd,
                                     at |-> instant])
                          ELSE sample
            /\ before' = metrics
            /\ update' = [called |-> TRUE, new_min_rtt |-> new_min_rtt,
                           new_cwnd |-> new_cwnd, at |-> instant,
                           ret |-> res.ret, prior |-> sample]
    /\ UNCHANGED <<resume_vars, qlog_vars, good_acks>>

NextObserver == MaybeUpdate

SpecObserver == InitObserver /\ [][NextObserver]_vars

\* ------------------------------------------------------- reading a call
\* The recorded call was a call of `op` that returned (did not panic).
Returned(op) == call.op = op /\ ~call.panic

\* The recorded call was a send_packet that passed the app_limited and
\* iw_acked checks.
SentUnlimited ==
    /\ call.op = "send_packet"
    /\ ~call.args.app_limited
    /\ call.args.iw_acked

\* ... on an instance in Reconnaissance, with jump > 0.
SentWithJump ==
    /\ SentUnlimited
    /\ pre.cr_state = Reconnaissance
    /\ call.args.cwnd < pre.previous_cwnd \div 2

\* The RTT sample of the recorded send_packet lies strictly between
\* previous_rtt/2 and previous_rtt*10, as numbers.
RttStrictlyInside ==
    /\ call.args.rtt_sample # None
    /\ Unwrap(call.args.rtt_sample) > pre.previous_rtt \div 2
    /\ Unwrap(call.args.rtt_sample) < pre.previous_rtt * 10

\* The RTT sample of the recorded send_packet is at or beyond a bound.
RttOutside ==
    /\ call.args.rtt_sample # None
    /\ \/ Unwrap(call.args.rtt_sample) <= pre.previous_rtt \div 2
       \/ Unwrap(call.args.rtt_sample) >= pre.previous_rtt * 10

\* The recorded call was a process_ack on an instance in phase `tag`.
AckedIn(tag) == call.op = "process_ack" /\ Tag(pre.cr_state) = tag

\* The fields of the instance other than the snapshot given to setup.
Phase(self) ==
    <<self.cr_state, self.pipesize, self.total_acked, self.last_trigger>>

\* ----------------------------------------------------------------- C1
\* C1: once the phase is Normal, it is Normal after every later call, whatever
\* the call and its arguments.
C1_NormalIsTerminal ==
    [][resume.cr_state = Normal => resume'.cr_state = Normal]_vars

\* A call was made on an instance in Normal that had been set up: a
\* send_packet that passed the checks with an RTT sample.
C1_Witness ==
    /\ SentUnlimited
    /\ pre.cr_state = Normal
    /\ pre.previous_cwnd \div 2 > call.args.cwnd
    /\ call.args.rtt_sample # None
    /\ resume.cr_state = Normal

\* ----------------------------------------------------------------- C2
Rank(state) ==
    CASE Tag(state) = "Reconnaissance" -> 0
      [] Tag(state) = "Unvalidated" -> 1
      [] Tag(state) = "Validating" -> 2
      [] Tag(state) = "SafeRetreat" -> 3
      [] Tag(state) = "Normal" -> 4

Edges ==
    { <<"Reconnaissance", "Normal">>, <<"Reconnaissance", "Unvalidated">>,
      <<"Unvalidated", "Normal">>, <<"Unvalidated", "Validating">>,
      <<"Unvalidated", "SafeRetreat">>, <<"Validating", "Normal">>,
      <<"Validating", "SafeRetreat">>, <<"SafeRetreat", "Normal">> }

\* C2: a new instance is in Reconnaissance, and every call that changes the
\* phase (its variant or its mark) takes one of the eight edges, so the phase
\* strictly advances in the order Reconnaissance < Unvalidated < Validating <
\* SafeRetreat < Normal.
C2_PhaseEdges ==
    /\ resume.cr_state = Reconnaissance
    /\ [][resume'.cr_state # resume.cr_state =>
            /\ <<Tag(resume.cr_state), Tag(resume'.cr_state)>> \in Edges
            /\ Rank(resume'.cr_state) > Rank(resume.cr_state)]_vars

\* The third edge of a path was taken: a congestion_event moved Validating to
\* SafeRetreat, after Reconnaissance -> Unvalidated -> Validating.
C2_Witness ==
    /\ Returned("congestion_event")
    /\ Tag(pre.cr_state) = "Validating"
    /\ Tag(resume.cr_state) = "SafeRetreat"
    /\ jumps = 1

\* ----------------------------------------------------------------- C3
\* C3: send_packet in Reconnaissance, not app limited, iw acked, with
\* cwnd < previous_cwnd/2 and an RTT sample strictly between previous_rtt/2
\* and previous_rtt*10, sets pipesize to cwnd, enters
\* Unvalidated(largest_pkt_sent) with trigger CwndLimited and returns
\* jump = previous_cwnd/2 - cwnd > 0.
C3_ValidJump ==
    (SentWithJump /\ RttStrictlyInside) =>
        /\ ~call.panic
        /\ resume.pipesize = call.args.cwnd
        /\ resume.cr_state = Unvalidated(call.args.largest_pkt_sent)
        /\ resume.last_trigger = Some("CwndLimited")
        /\ call.ret = pre.previous_cwnd \div 2 - call.args.cwnd
        /\ call.ret > 0
        /\ call.args.cwnd + call.ret = pre.previous_cwnd \div 2

\* ----------------------------------------------------------------- C4
\* C4: in every phase, send_packet with app_limited = true or iw_acked = false
\* returns 0 and changes neither the phase, the mark, pipesize, total_acked
\* nor last_trigger, whatever the other arguments.
C4_LimitedIsNoOp ==
    (call.op = "send_packet" /\ (call.args.app_limited \/ ~call.args.iw_acked)) =>
        /\ ~call.panic
        /\ call.ret = 0
        /\ Phase(resume) = Phase(pre)

\* Such a call came in Reconnaissance with arguments that would otherwise jump.
C4_Witness ==
    /\ call.op = "send_packet"
    /\ ~call.args.app_limited
    /\ ~call.args.iw_acked
    /\ pre.cr_state = Reconnaissance
    /\ call.args.cwnd < pre.previous_cwnd \div 2
    /\ RttStrictlyInside
    /\ ~MulOverflows(pre.previous_rtt, 10)
    /\ resume.cr_state = Reconnaissance

\* ----------------------------------------------------------------- C5
\* C5: send_packet in Reconnaissance, not app limited, iw acked, with
\* cwnd >= previous_cwnd/2 enters Normal with trigger CwndLimited and returns
\* 0, whether the RTT sample is absent, similar or divergent; pipesize stays.
C5_NoJumpToNormal ==
    (SentUnlimited /\ pre.cr_state = Reconnaissance
        /\ call.args.cwnd >= pre.previous_cwnd \div 2) =>
        /\ ~call.panic
        /\ resume.cr_state = Normal
        /\ resume.last_trigger = Some("CwndLimited")
        /\ call.ret = 0
        /\ resume.pipesize = pre.pipesize

\* Such a call came with cwnd below previous_cwnd and no RTT sample.
C5_Witness ==
    /\ SentUnlimited
    /\ pre.cr_state = Reconnaissance
    /\ call.args.cwnd >= pre.previous_cwnd \div 2
    /\ call.args.cwnd < pre.previous_cwnd
    /\ call.args.rtt_sample = None
    /\ resume.cr_state = Normal

\* ----------------------------------------------------------------- C6
\* C6: send_packet in Reconnaissance, not app limited, iw acked, with jump > 0
\* and an RTT sample <= previous_rtt/2 or >= previous_rtt*10 enters Normal
\* with trigger RttNotValidated, returns 0 and leaves pipesize; an RTT sample
\* strictly inside the bounds never makes this transition.
C6_DivergentRtt ==
    /\ (SentWithJump /\ RttOutside) =>
            /\ ~call.panic
            /\ resume.cr_state = Normal
            /\ resume.last_trigger = Some("RttNotValidated")
            /\ call.ret = 0
            /\ resume.pipesize = pre.pipesize
    /\ (SentWithJump /\ RttStrictlyInside) => resume.cr_state # Normal

\* The RTT sample was exactly previous_rtt*10, with previous_rtt > 0.
C6_Witness ==
    /\ SentWithJump
    /\ pre.previous_rtt > 0
    /\ call.args.rtt_sample = Some(pre.previous_rtt * 10)
    /\ resume.cr_state = Normal

\* ----------------------------------------------------------------- C7
\* C7: send_packet in Reconnaissance, not app limited, iw acked, with jump > 0
\* and no RTT sample returns 0 and changes nothing, so the phase is still
\* Reconnaissance after any number of such calls.
C7_NoRttSample ==
    (SentWithJump /\ call.args.rtt_sample = None) =>
        /\ ~call.panic
        /\ call.ret = 0
        /\ resume = pre

C7_Witness ==
    /\ SentWithJump
    /\ call.args.rtt_sample = None
    /\ pre.enabled
    /\ resume.cr_state = Reconnaissance

\* ----------------------------------------------------------------- C8
\* C8: send_packet in a phase other than Reconnaissance returns 0 and changes
\* nothing; over the calls of one instance at most one send_packet returns a
\* non-zero jump, and it is the call that moves Reconnaissance to Unvalidated.
C8_OneJump ==
    /\ (call.op = "send_packet" /\ pre.cr_state # Reconnaissance) =>
            /\ ~call.panic
            /\ call.ret = 0
            /\ resume = pre
    /\ jumps <= 1
    /\ Returned("send_packet") =>
            (call.ret # 0 <=>
                /\ pre.cr_state = Reconnaissance
                /\ Tag(resume.cr_state) = "Unvalidated")

\* After the jump, a send_packet that would jump in Reconnaissance came in
\* Normal.
C8_Witness ==
    /\ jumps = 1
    /\ SentUnlimited
    /\ pre.cr_state = Normal
    /\ call.args.cwnd < pre.previous_cwnd \div 2
    /\ RttStrictlyInside
    /\ call.ret = 0

\* ----------------------------------------------------------------- C9
\* C9: process_ack in Unvalidated(first_pkt) of a packet below first_pkt adds
\* the packet's size to pipesize, keeps Unvalidated(first_pkt) and returns
\* (None, None).
C9_AckBelowMark ==
    (AckedIn("Unvalidated") /\ call.args.pkt_num < Mark(pre.cr_state)) =>
        /\ ~call.panic
        /\ resume.pipesize = pre.pipesize + call.args.size
        /\ resume.cr_state = pre.cr_state
        /\ call.ret = <<None, None>>

C9_Witness ==
    /\ AckedIn("Unvalidated")
    /\ call.args.pkt_num < Mark(pre.cr_state)
    /\ call.args.size > 0
    /\ call.args.flightsize <= pre.pipesize
    /\ Tag(resume.cr_state) = "Unvalidated"

\* ---------------------------------------------------------------- C10
\* C10: process_ack in Unvalidated(first_pkt) of a packet at or above first_pkt,
\* with flightsize <= pipesize after adding the packet's size, enters Normal
\* with trigger CrMarkAcknowledged and returns (Some(pipesize), None).
C10_MarkAckedPipeFull ==
    (AckedIn("Unvalidated") /\ call.args.pkt_num >= Mark(pre.cr_state)
        /\ call.args.flightsize <= pre.pipesize + call.args.size) =>
        /\ ~call.panic
        /\ resume.cr_state = Normal
        /\ resume.last_trigger = Some("CrMarkAcknowledged")
        /\ resume.pipesize = pre.pipesize + call.args.size
        /\ call.ret = <<Some(pre.pipesize + call.args.size), None>>

\* flightsize was exactly the pipesize reached by adding this packet.
C10_Witness ==
    /\ AckedIn("Unvalidated")
    /\ call.args.pkt_num >= Mark(pre.cr_state)
    /\ call.args.size > 0
    /\ call.args.flightsize = pre.pipesize + call.args.size
    /\ resume.cr_state = Normal

\* ---------------------------------------------------------------- C11
\* C11: process_ack in Unvalidated(first_pkt) of a packet at or above
\* first_pkt, with flightsize > pipesize after adding the packet's size, enters
\* Validating(largest_pkt_sent), the mark being this call's largest_pkt_sent,
\* with trigger CrMarkAcknowledged, and returns (Some(flightsize), None).
C11_MarkAckedToValidating ==
    (AckedIn("Unvalidated") /\ call.args.pkt_num >= Mark(pre.cr_state)
        /\ call.args.flightsize > pre.pipesize + call.args.size) =>
        /\ ~call.panic
        /\ resume.cr_state = Validating(call.args.largest_pkt_sent)
        /\ resume.last_trigger = Some("CrMarkAcknowledged")
        /\ resume.pipesize = pre.pipesize + call.args.size
        /\ call.ret = <<Some(call.args.flightsize), None>>

\* The three packet numbers of the call differed: the mark acknowledged, the
\* packet acknowledged and the largest packet sent.
C11_Witness ==
    /\ AckedIn("Unvalidated")
    /\ call.args.pkt_num > Mark(pre.cr_state)
    /\ call.args.largest_pkt_sent # call.args.pkt_num
    /\ call.args.largest_pkt_sent # Mark(pre.cr_state)
    /\ call.args.size > 0
    /\ call.args.flightsize = pre.pipesize + call.args.size + 1
    /\ Tag(resume.cr_state) = "Validating"

\* ---------------------------------------------------------------- C12
\* C12: process_ack in Validating(last_pkt) always adds the packet's size to
\* pipesize and always returns (None, None); the phase becomes Normal, with
\* trigger CrMarkAcknowledged, iff the packet is at or above last_pkt, and
\* stays Validating(last_pkt) otherwise.
C12_AckInValidating ==
    AckedIn("Validating") =>
        /\ ~call.panic
        /\ resume.pipesize = pre.pipesize + call.args.size
        /\ call.ret = <<None, None>>
        /\ IF call.args.pkt_num >= Mark(pre.cr_state)
           THEN /\ resume.cr_state = Normal
                /\ resume.last_trigger = Some("CrMarkAcknowledged")
           ELSE /\ resume.cr_state = pre.cr_state
                /\ resume.last_trigger = pre.last_trigger

\* The packet acknowledged was the mark itself.
C12_Witness ==
    /\ AckedIn("Validating")
    /\ call.args.pkt_num = Mark(pre.cr_state)
    /\ call.args.size > 0
    /\ resume.cr_state = Normal

\* ---------------------------------------------------------------- C13
\* C13: process_ack in SafeRetreat(last_pkt): for a packet at or above last_pkt
\* the phase becomes Normal with trigger ExitRecovery and the call returns
\* (None, Some(pipesize)), pipesize not including this packet's size;
\* otherwise the size is added to pipesize, the phase stays
\* SafeRetreat(last_pkt) and the call returns (None, None).  So the ssthresh
\* returned is the pipesize at the entry of SafeRetreat plus the sizes of the
\* packets below the mark acknowledged during SafeRetreat.
C13_AckInSafeRetreat ==
    AckedIn("SafeRetreat") =>
        /\ ~call.panic
        /\ IF call.args.pkt_num >= Mark(pre.cr_state)
           THEN /\ resume.cr_state = Normal
                /\ resume.last_trigger = Some("ExitRecovery")
                /\ resume.pipesize = pre.pipesize
                /\ call.ret = <<None, Some(pre.pipesize)>>
                /\ call.ret = <<None, Some(retreat_pipe)>>
           ELSE /\ resume.cr_state = pre.cr_state
                /\ resume.pipesize = pre.pipesize + call.args.size
                /\ call.ret = <<None, None>>

\* SafeRetreat ended with a packet of non-zero size, with a non-zero pipesize
\* and after other packets of non-zero size had been acknowledged.
C13_Witness ==
    /\ AckedIn("SafeRetreat")
    /\ call.args.pkt_num >= Mark(pre.cr_state)
    /\ call.args.size > 0
    /\ pre.total_acked > 0
    /\ retreat_pipe > 0
    /\ resume.cr_state = Normal

\* ---------------------------------------------------------------- C14
\* C14: process_ack in Reconnaissance or in Normal leaves the phase and
\* pipesize as they are and returns (None, None), for every packet number,
\* size and flightsize.
C14_AckOutsideResume ==
    (call.op = "process_ack" /\ pre.cr_state \in {Reconnaissance, Normal}) =>
        /\ ~call.panic
        /\ resume.cr_state = pre.cr_state
        /\ resume.pipesize = pre.pipesize
        /\ resume.last_trigger = pre.last_trigger
        /\ call.ret = <<None, None>>

\* A packet of non-zero size was acknowledged in Normal, on an instance that
\* had left a jump with a non-zero pipesize.
C14_Witness ==
    /\ call.op = "process_ack"
    /\ pre.cr_state = Normal
    /\ jumps = 1
    /\ pre.pipesize > 0
    /\ call.args.size > 0
    /\ resume.total_acked > pre.total_acked

\* ---------------------------------------------------------------- C15
\* The recorded call was a congestion_event on an instance in phase `tag`.
LossIn(tag) == call.op = "congestion_event" /\ Tag(pre.cr_state) = tag

\* C15: congestion_event(largest_pkt_sent) in Unvalidated enters
\* SafeRetreat(largest_pkt_sent) with trigger PacketLoss, returns pipesize/2
\* rounded toward zero and leaves pipesize.
C15_LossInUnvalidated ==
    LossIn("Unvalidated") =>
        /\ ~call.panic
        /\ resume.cr_state = SafeRetreat(call.args.largest_pkt_sent)
        /\ resume.last_trigger = Some("PacketLoss")
        /\ resume.pipesize = pre.pipesize
        /\ 2 * call.ret <= pre.pipesize
        /\ pre.pipesize < 2 * call.ret + 2

\* The pipesize was odd and at least 3, and largest_pkt_sent was not the mark
\* of Unvalidated.
C15_Witness ==
    /\ LossIn("Unvalidated")
    /\ pre.pipesize >= 3
    /\ pre.pipesize % 2 = 1
    /\ call.args.largest_pkt_sent # Mark(pre.cr_state)
    /\ Tag(resume.cr_state) = "SafeRetreat"

\* ---------------------------------------------------------------- C16
\* C16: congestion_event(largest_pkt_sent) in Validating(mark) enters
\* SafeRetreat(mark), keeping the mark and ignoring largest_pkt_sent, with
\* trigger PacketLoss, and returns pipesize/2.
C16_LossInValidating ==
    LossIn("Validating") =>
        /\ ~call.panic
        /\ resume.cr_state = SafeRetreat(Mark(pre.cr_state))
        /\ resume.last_trigger = Some("PacketLoss")
        /\ resume.pipesize = pre.pipesize
        /\ call.ret = pre.pipesize \div 2

\* largest_pkt_sent was above the mark of Validating.
C16_Witness ==
    /\ LossIn("Validating")
    /\ call.args.largest_pkt_sent > Mark(pre.cr_state)
    /\ pre.pipesize >= 2
    /\ Tag(resume.cr_state) = "SafeRetreat"

\* ---------------------------------------------------------------- C17
\* C17: congestion_event in Reconnaissance enters Normal with trigger
\* PacketLoss and returns 0; after it no send_packet jumps: the instance has
\* made no jump and a later send_packet returns 0 and changes nothing.
C17_LossInReconnaissance ==
    /\ LossIn("Reconnaissance") =>
            /\ ~call.panic
            /\ resume.cr_state = Normal
            /\ resume.last_trigger = Some("PacketLoss")
            /\ resume.pipesize = pre.pipesize
            /\ call.ret = 0
    /\ (resume.cr_state = Normal /\ resume.last_trigger = Some("PacketLoss")) =>
            jumps = 0
    /\ (call.op = "send_packet" /\ pre.cr_state = Normal
            /\ pre.last_trigger = Some("PacketLoss")) =>
            /\ ~call.panic
            /\ call.ret = 0
            /\ resume = pre

\* After the loss in Reconnaissance came a send_packet that would have jumped.
C17_Witness ==
    /\ SentUnlimited
    /\ pre.cr_state = Normal
    /\ pre.last_trigger = Some("PacketLoss")
    /\ call.args.cwnd < pre.previous_cwnd \div 2
    /\ RttStrictlyInside
    /\ ~MulOverflows(pre.previous_rtt, 10)
    /\ call.ret = 0

\* ---------------------------------------------------------------- C18
\* C18: congestion_event in SafeRetreat(mark) or in Normal returns 0 and
\* changes nothing: neither the mark, nor pipesize, nor last_trigger.
C18_LossAfterLoss ==
    (call.op = "congestion_event"
        /\ Tag(pre.cr_state) \in {"SafeRetreat", "Normal"}) =>
        /\ ~call.panic
        /\ call.ret = 0
        /\ resume = pre

\* A second loss came in SafeRetreat, with a larger largest_pkt_sent than the
\* mark and a pipesize whose half is not 0.
C18_Witness ==
    /\ LossIn("SafeRetreat")
    /\ call.args.largest_pkt_sent > Mark(pre.cr_state)
    /\ pre.pipesize >= 2
    /\ pre.last_trigger = Some("PacketLoss")

\* ---------------------------------------------------------------- C19
\* C19, as claimed: after any call to setup, in whatever state the instance
\* was, enabled() returns true and the phase is Reconnaissance.
C19_SetupArms ==
    Returned("setup") =>
        /\ enabled(resume)
        /\ resume.cr_state = Reconnaissance

\* C19, amended: setup leaves the phase as it is.  After setup on an instance
\* in Reconnaissance, as a new instance is, enabled() returns true and the
\* phase is Reconnaissance; after setup in any other phase, enabled() returns
\* true unless the phase is Normal.
C19_SetupKeepsPhase ==
    Returned("setup") =>
        /\ resume.cr_state = pre.cr_state
        /\ enabled(resume) <=> pre.cr_state # Normal
        /\ pre.cr_state = Reconnaissance =>
                /\ enabled(resume)
                /\ resume.cr_state = Reconnaissance

\* setup was called on a new instance.
C19_Witness ==
    /\ Returned("setup")
    /\ pre = new
    /\ call.args.previous_cwnd > 0
    /\ call.args.previous_rtt > 0
    /\ enabled(resume)
    /\ resume.cr_state = Reconnaissance

\* ---------------------------------------------------------------- C20
\* C20: in every reachable state enabled() returns true if and only if setup
\* has been called at least once and the phase is not Normal.
C20_EnabledIff ==
    enabled(resume) <=> (configured /\ resume.cr_state # Normal)

\* A congestion_event has put an instance that was set up in SafeRetreat:
\* enabled() returns true.
C20_Witness ==
    /\ Returned("congestion_event")
    /\ configured
    /\ Tag(resume.cr_state) = "SafeRetreat"
    /\ enabled(resume)

\* ---------------------------------------------------------------- C21
\* The recorded call was one of the three hooks.
Hooked == call.op \in {"send_packet", "process_ack", "congestion_event"}

\* C21: on an instance on which setup has never been called, send_packet,
\* process_ack and congestion_event are no-ops: they leave phase, pipesize,
\* total_acked and last_trigger unchanged and return 0 / (None, None).
C21_IdleBeforeSetup ==
    (Hooked /\ ~pre.enabled) =>
        /\ ~call.panic
        /\ resume.cr_state = pre.cr_state
        /\ resume.pipesize = pre.pipesize
        /\ resume.total_acked = pre.total_acked
        /\ resume.last_trigger = pre.last_trigger
        /\ call.ret = IF call.op = "process_ack" THEN <<None, None>> ELSE 0

\* ---------------------------------------------------------------- C22
\* C22: after setup, pipesize never decreases from one call to the next,
\* the send_packet that sets pipesize to cwnd on entering Unvalidated
\* included.
C22_PipesizeMonotone ==
    [][configured => resume'.pipesize >= resume.pipesize]_vars

\* A send_packet on an instance that was set up entered Unvalidated and set
\* pipesize to a non-zero cwnd.
C22_Witness ==
    /\ Returned("send_packet")
    /\ pre.enabled
    /\ pre.cr_state = Reconnaissance
    /\ Tag(resume.cr_state) = "Unvalidated"
    /\ call.args.cwnd > 0
    /\ resume.pipesize = call.args.cwnd

\* ---------------------------------------------------------------- C23
\* C23: in every phase, and whether or not setup was called, total_acked is
\* the sum of the sizes of all packets passed to process_ack so far, and no
\* other operation changes total_acked.
C23_TotalAcked ==
    /\ resume.total_acked = acked_sum
    /\ call.op \in {"setup", "send_packet", "congestion_event"} =>
            resume.total_acked = pre.total_acked

\* A packet of non-zero size was acknowledged on an instance that was never
\* set up and had counted acknowledged bytes before.
C23_Witness ==
    /\ Returned("process_ack")
    /\ ~configured
    /\ call.args.size > 0
    /\ pre.total_acked > 0
    /\ resume.total_acked = pre.total_acked + call.args.size

\* ---------------------------------------------------------------- C24
\* The phases that carry a mark.
Marked(state) == Tag(state) \in {"Unvalidated", "Validating", "SafeRetreat"}

\* The recorded call returned and left the instance in a phase with a mark.
LeftMarked == call.op # "none" /\ ~call.panic /\ Marked(resume.cr_state)

\* C24, as claimed: the host passing accurate, non-decreasing values of
\* largest_pkt_sent, the mark stored when the phase enters Unvalidated,
\* Validating or SafeRetreat is >= every largest_pkt_sent passed up to and
\* including the entering call, and the mark does not change while the phase
\* tag stays the same.
C24_MarkCoversSent ==
    LeftMarked =>
        IF Tag(pre.cr_state) = Tag(resume.cr_state)
        THEN resume.cr_state = pre.cr_state
        ELSE Mark(resume.cr_state) >= sent

\* C24, amended: the mark stored when the phase enters Unvalidated or
\* Validating, or SafeRetreat from Unvalidated, is the largest_pkt_sent of the
\* entering call, which is >= every value passed before; SafeRetreat entered
\* from Validating keeps the mark Validating had; the mark does not change
\* while the phase tag stays the same.
C24_MarkAtEntry ==
    LeftMarked =>
        IF Tag(pre.cr_state) = Tag(resume.cr_state)
        THEN resume.cr_state = pre.cr_state
        ELSE IF Tag(pre.cr_state) = "Validating"
        THEN resume.cr_state = SafeRetreat(Mark(pre.cr_state))
        ELSE /\ Mark(resume.cr_state) = call.args.largest_pkt_sent
             /\ Mark(resume.cr_state) = sent

\* Validating was entered with a mark above the mark of Unvalidated.
C24_Witness ==
    /\ Returned("process_ack")
    /\ Tag(pre.cr_state) = "Unvalidated"
    /\ Tag(resume.cr_state) = "Validating"
    /\ Mark(resume.cr_state) = sent
    /\ sent > Mark(pre.cr_state)

\* ---------------------------------------------------------------- C25
\* C25: send_packet completes without failure for every previous_rtt given
\* to setup, also when previous_rtt * 10 is not representable.
C25_SendPacketTotal ==
    call.op = "send_packet" => ~call.panic

\* ------------------------------------------------- reading a maybe_update
\* The time between the last update (or the creation) and the latest call.
Elapsed == update.at - before.last_update

\* The latest call passed the test on iw.
LargeEnough == update.called /\ update.new_cwnd >= 4 * before.iw

\* The sample the latest call was given.
Given == [min_rtt |-> update.new_min_rtt, cwnd |-> update.new_cwnd]

\* The latest call was given the sample that was the latest returned one.
Repeated ==
    /\ update.called
    /\ update.prior # None
    /\ update.new_min_rtt = Unwrap(update.prior).min_rtt
    /\ update.new_cwnd = Unwrap(update.prior).cwnd

\* The time between the return of the latest sample and the latest call.
SinceSample == update.at - Unwrap(update.prior).at

\* ---------------------------------------------------------------- C26
\* C26: maybe_update returns None and leaves the stored min_rtt, cwnd and
\* last_update unchanged for every call with new_cwnd < 4 * iw, whatever the
\* elapsed time and the stored sample are.
C26_SmallCwndIgnored ==
    (update.called /\ update.new_cwnd < 4 * before.iw) =>
        /\ update.ret = None
        /\ metrics.min_rtt = before.min_rtt
        /\ metrics.cwnd = before.cwnd
        /\ metrics.last_update = before.last_update

\* A call with new_cwnd < 4 * iw, more than 60 s after the last update, with
\* a min_rtt other than the stored one.
C26_Witness ==
    /\ update.called
    /\ update.new_cwnd < 4 * before.iw
    /\ update.prior # None
    /\ Elapsed > 60
    /\ update.new_min_rtt # before.min_rtt
    /\ update.ret = None

\* ---------------------------------------------------------------- C27
\* C27: maybe_update with new_cwnd >= 4 * iw, strictly more than 60 s after
\* the last update (or the creation), returns Some((new_min_rtt, new_cwnd))
\* and stores them with last_update the current time, however close the
\* inputs are to the stored sample; at exactly 60 s the cap does not apply.
C27_GapForcesSample ==
    LargeEnough =>
        /\ Elapsed > 60 =>
                /\ update.ret = Some(Given)
                /\ metrics = [before EXCEPT !.min_rtt = update.new_min_rtt,
                                            !.cwnd = update.new_cwnd,
                                            !.last_update = update.at]
        /\ (/\ Elapsed = 60
            /\ update.new_min_rtt = before.min_rtt
            /\ update.new_cwnd = before.cwnd) => update.ret = None

\* The stored sample was given again 61 s after it was stored.
C27_Witness ==
    /\ LargeEnough
    /\ Elapsed = 61
    /\ update.new_min_rtt = before.min_rtt
    /\ update.new_cwnd = before.cwnd
    /\ update.ret = Some(Given)
    /\ metrics.last_update = update.at

Scenario ==
    /\ update.called
    /\ before.iw = 1000
    /\ update.new_min_rtt = 50000000
    /\ update.new_cwnd = 4000

\* C29, as claimed: with iw = 1000, the first call maybe_update(50ms, 4000)
\* made at t = 0, the creation instant, returns Some; the identical call at
\* t = 59 s returns None; the identical call at t = 61 s returns Some.
C29_ScenarioAtCreation ==
    /\ (Scenario /\ calls = 1 /\ update.at = 0) => update.ret # None
    /\ (Scenario /\ Repeated /\ Unwrap(update.prior).at = 0) =>
            /\ update.at = 59 => update.ret = None
            /\ update.at = 61 => update.ret # None

\* C29, amended: with iw = 1000, the first call maybe_update(50ms, 4000)
\* returns None when made at the creation instant (no time elapsed) and Some
\* when made later; the identical call 59 s after a call that returned Some
\* returns None, and the identical call 61 s after it returns Some.
C29_ScenarioAfterCreation ==
    /\ (Scenario /\ calls = 1) =>
            IF update.at = 0 THEN update.ret = None ELSE update.ret = Some(Given)
    /\ (Scenario /\ Repeated) =>
            /\ SinceSample = 59 => update.ret = None
            /\ SinceSample = 61 => update.ret = Some(Given)

\* (50ms, 4000) was returned by a call made after the creation instant, given
\* again 59 s later, and given again 61 s after it was returned: Some.
C29_Witness ==
    /\ Scenario
    /\ Repeated
    /\ calls = 3
    /\ Unwrap(update.prior).at > 0
    /\ Elapsed = 61
    /\ SinceSample = 61
    /\ update.ret = Some(Given)

\* ---------------------------------------------------------------- C30
\* x lies in stored * [1 - 1/e, 1 + 1/e], the bounds included (e > 0).
InBand(x, stored, e) == (e - 1) * stored <= e * x /\ e * x <= (e + 1) * stored

\* C30: for maybe_update with new_cwnd >= 4 * iw and elapsed e <= 60 s: if
\* e = 0 the result is None; otherwise, with range = 1/e, a sample is
\* returned iff new_min_rtt lies outside stored_min_rtt * [1 - range,
\* 1 + range] or new_cwnd lies outside stored_cwnd * [1 - range, 1 + range],
\* the bounds counting as inside.  (min_rtt in whole microseconds.)
C30_ToleranceBand ==
    (LargeEnough /\ Elapsed <= 60) =>
        IF Elapsed = 0
        THEN update.ret = None
        ELSE update.ret = None <=>
                /\ InBand(as_micros(update.new_min_rtt),
                          as_micros(before.min_rtt), Elapsed)
                /\ InBand(update.new_cwnd, before.cwnd, Elapsed)

\* Two seconds after a sample was stored, a min_rtt of half the stored one,
\* the lower bound of the band, is given with the stored cwnd: None.
C30_Witness ==
    /\ LargeEnough
    /\ Elapsed = 2
    /\ before.min_rtt > 0
    /\ 2 * update.new_min_rtt = before.min_rtt
    /\ update.new_cwnd = before.cwnd
    /\ update.ret = None

\* ---------------------------------------------------------------- C34
\* The triggers the claim lets each method record.
SetBy(op) ==
    CASE op = "congestion_event" -> {"PacketLoss"}
      [] op = "send_packet" -> {"CwndLimited", "RttNotValidated"}
      [] op = "process_ack" -> {"CrMarkAcknowledged", "ExitRecovery"}
      [] OTHER -> {}

\* C34: last_trigger is never EcnCe; PacketLoss is set only by
\* congestion_event, CwndLimited and RttNotValidated only by send_packet,
\* CrMarkAcknowledged and ExitRecovery only by process_ack, and ExitRecovery
\* only on SafeRetreat -> Normal.
C34_TriggersRecorded ==
    /\ resume.last_trigger \in
            {None} \cup {Some(t) : t \in CarefulResumeTrigger \ {"EcnCe"}}
    /\ call.op # "none" =>
            IF resume.cr_state = pre.cr_state
            THEN resume.last_trigger = pre.last_trigger
            ELSE /\ resume.last_trigger \in {Some(t) : t \in SetBy(call.op)}
                 /\ resume.last_trigger = Some("ExitRecovery") =>
                        /\ Tag(pre.cr_state) = "SafeRetreat"
                        /\ resume.cr_state = Normal

\* process_ack left SafeRetreat and recorded ExitRecovery over PacketLoss.
C34_Witness ==
    /\ Returned("process_ack")
    /\ Tag(pre.cr_state) = "SafeRetreat"
    /\ pre.last_trigger = Some("PacketLoss")
    /\ resume.cr_state = Normal
    /\ resume.last_trigger = Some("ExitRecovery")

\* ---------------------------------------------------------------- C36
Max(a, b) == IF a >= b THEN a ELSE b

\* C36: whenever process_ack returns a new cwnd c, c is the larger of
\* flightsize and pipesize, pipesize taken after the acked size was added; so
\* c is never below the pipesize.
C36_NewCwndIsMax ==
    (Returned("process_ack") /\ call.ret[1] # None) =>
        LET c == Unwrap(call.ret[1]) IN
        /\ c = Max(call.args.flightsize, pre.pipesize + call.args.size)
        /\ c >= resume.pipesize

\* The new cwnd was a flightsize above a non-zero pipesize.
C36_Witness ==
    /\ Returned("process_ack")
    /\ call.ret[1] = Some(call.args.flightsize)
    /\ call.args.size > 0
    /\ resume.pipesize > 0
    /\ call.args.flightsize > resume.pipesize

\* ---------------------------------------------------------------- C37
\* C37: if congestion_event returned the hint h when it moved the phase into
\* SafeRetreat and a later process_ack returns the ssthresh s on leaving
\* SafeRetreat, then s >= 2 * h.
C37_SsthreshCoversHint ==
    (Returned("process_ack") /\ call.ret[2] # None) =>
        /\ hint # None
        /\ Unwrap(call.ret[2]) >= 2 * Unwrap(hint)

\* A non-zero hint was followed by an ssthresh above its double.
C37_Witness ==
    /\ Returned("process_ack")
    /\ call.ret[2] # None
    /\ hint # None
    /\ Unwrap(hint) > 0
    /\ Unwrap(call.ret[2]) > 2 * Unwrap(hint)

\* ---------------------------------------------------------------- C38
\* C38: setup in any phase changes only enabled, previous_rtt and
\* previous_cwnd; the phase and its mark, pipesize, total_acked and
\* last_trigger are left as they were.
C38_SetupFrame ==
    Returned("setup") =>
        resume = [pre EXCEPT !.enabled = TRUE,
                             !.previous_rtt = call.args.previous_rtt,
                             !.previous_cwnd = call.args.previous_cwnd]

\* A second setup, with other values, in the middle of a jump.
C38_Witness ==
    /\ Returned("setup")
    /\ pre.enabled
    /\ Tag(pre.cr_state) = "Unvalidated"
    /\ pre.pipesize > 0
    /\ pre.total_acked > 0
    /\ call.args.previous_rtt # pre.previous_rtt
    /\ call.args.previous_cwnd # pre.previous_cwnd
    /\ resume.cr_state = pre.cr_state
    /\ resume.pipesize = pre.pipesize

\* ---------------------------------------------------------------- C39
\* C39: over any sequence of calls process_ack returns a new cwnd in at most
\* one call and a new ssthresh in at most one call, never both in one call,
\* and congestion_event changes the phase in at most one call.
C39_AtMostOnce ==
    /\ tally.cwnds <= 1
    /\ tally.ssthreshs <= 1
    /\ tally.moves <= 1
    /\ Returned("process_ack") => (call.ret[1] = None \/ call.ret[2] = None)

\* All three happened: a new cwnd, then a loss, then a new ssthresh.
C39_Witness ==
    /\ tally = [cwnds |-> 1, ssthreshs |-> 1, moves |-> 1]
    /\ Returned("process_ack")
    /\ call.ret[2] # None

\* ---------------------------------------------------------------- C40
\* C40: a maybe_update call that returns None leaves the stored min_rtt, cwnd
\* and last_update unchanged, so last_update is always the time of the last
\* returned sample, or of the creation when none was returned, and never the
\* time of a call that returned None.
C40_NoneLeavesStored ==
    /\ (update.called /\ update.ret = None) => metrics = before
    /\ IF sample = None
       THEN metrics = CRMetrics_new(metrics.iw, 0)
       ELSE /\ metrics.last_update = Unwrap(sample).at
            /\ metrics.min_rtt = Unwrap(sample).min_rtt
            /\ metrics.cwnd = Unwrap(sample).cwnd

\* A call that passed the test on iw, with another min_rtt than the stored
\* one, returned None some time after the last sample.
C40_Witness ==
    /\ LargeEnough
    /\ update.ret = None
    /\ update.prior # None
    /\ update.new_min_rtt # before.min_rtt
    /\ Elapsed > 0
    /\ metrics.last_update < now

\* ---------------------------------------------------------------- C35
\* C35: from a phase with a mark, the phase is Normal after at most two
\* process_ack calls whose pkt_num is >= every largest_pkt_sent passed up to
\* and including them, whatever other calls are interleaved; so when such
\* acknowledgements keep arriving the phase eventually becomes Normal.
C35_TwoAcksToNormal ==
    /\ [](good_acks = 2 => resume.cr_state = Normal)
    /\ [](Marked(resume.cr_state) => <>(resume.cr_state = Normal))

\* Two such acknowledgements were needed, with a loss between them.
C35_Witness ==
    /\ good_acks = 2
    /\ resume.cr_state = Normal
    /\ resume.last_trigger = Some("ExitRecovery")
    /\ sent > 0

\* ---------------------------------------------------- reading a maybe_qlog
\* The latest call was maybe_qlog, or setup after maybe_qlog.
JustLogged == logs >= 1

\* The event the latest maybe_qlog returned.
Event == Unwrap(logged.ret)

\* The latest maybe_qlog was the first call after a send_packet, process_ack
\* or congestion_event that changed the phase, made by a host that has
\* called maybe_qlog after every such call.
Followed ==
    /\ ~missed
    /\ logs = 1
    /\ moved # None
    /\ Unwrap(moved) # resume.cr_state

\* The same, after a call that left the phase as it was.
FollowedIdle ==
    /\ ~missed
    /\ logs = 1
    /\ moved # None
    /\ Unwrap(moved) = resume.cr_state

\* ---------------------------------------------------------------- C31
\* C31: maybe_qlog returns an event only when the phase tag differs from the
\* new phase of the last event returned: the second of two maybe_qlog calls
\* with no phase change in between returns nothing, whatever cwnd, ssthresh
\* and pipesize are, and no call changes the mark and keeps the phase tag.
C31_EventOnlyOnNewPhase ==
    /\ [](JustLogged =>
            /\ logged.ret # None <=>
                    \/ logged.prior = None
                    \/ Unwrap(logged.prior) # map_state(resume.cr_state)
            /\ logs = 2 => logged.ret = None)
    /\ [][Tag(resume'.cr_state) = Tag(resume.cr_state)
            => resume'.cr_state = resume.cr_state]_vars

\* A maybe_qlog with another cwnd, ssthresh and pipesize than those of the
\* last event, after a process_ack that kept the phase, returned nothing.
C31_Witness ==
    /\ logs = 1
    /\ moved = Some(resume.cr_state)
    /\ Marked(resume.cr_state)
    /\ logged.ret = None
    /\ logged.cwnd # qlog_metrics.cwnd
    /\ logged.ssthresh # qlog_metrics.ssthresh
    /\ resume.pipesize # qlog_metrics.pipesize

\* ---------------------------------------------------------------- C32
\* What the spec says of the event that follows a phase transition, but for
\* its old phase: exactly one event, new the phase after the transition,
\* trigger that of the transition, cr_mark the mark of the new phase.
OneEventPerTransition ==
    /\ Followed =>
        /\ logged.ret # None
        /\ Event.new = map_state(resume.cr_state)
        /\ Event.trigger = resume.last_trigger
        /\ Event.trigger # None
        /\ Event.state_data.cr_mark =
                IF Marked(resume.cr_state) THEN Mark(resume.cr_state) ELSE 0
    /\ (FollowedIdle /\ qlog_calls = 2) => logged.ret = None
    /\ logs = 2 => logged.ret = None

\* C32 as stated: when the host calls maybe_qlog after every send_packet,
\* process_ack and congestion_event, every phase transition produces exactly
\* one event, returned by the maybe_qlog that follows it, with old the phase
\* before the transition, new the phase after it, the transition's trigger
\* and the new phase's mark.
C32_OldIsPhaseBefore ==
    /\ OneEventPerTransition
    /\ Followed => Event.old = Some(map_state(Unwrap(moved)))

\* C32, amended: ... with old the phase before the transition, or absent when
\* that maybe_qlog is the first one called on the instance.
C32_OldAbsentAtFirst ==
    /\ OneEventPerTransition
    /\ Followed => Event.old = IF qlog_calls = 1
                               THEN None
                               ELSE Some(map_state(Unwrap(moved)))

\* A loss in Validating was followed by an event with old and a mark.
C32_Witness ==
    /\ Followed
    /\ qlog_calls = 2
    /\ Event.old = Some("Validating")
    /\ Event.new = "SafeRetreat"
    /\ Event.trigger = Some("PacketLoss")
    /\ Event.state_data.cr_mark > 0

\* ---------------------------------------------------------------- C33
\* C33: the first maybe_qlog call on an instance returns an event, whose old
\* is absent; every event a later call returns has old present and equal to
\* the new phase of the event returned before it.
C33_OldChainsToNew ==
    /\ qlog_calls >= 1 => told # None
    /\ JustLogged =>
        /\ qlog_calls = 1 => (logged.ret # None /\ Event.old = None)
        /\ qlog_calls = 2 => logged.prior # None
        /\ logged.ret # None => (Event.old = logged.prior /\ told = Some(Event.new))

\* A later call returned an event, with another cwnd than the first event's.
C33_Witness ==
    /\ JustLogged
    /\ qlog_calls = 2
    /\ logged.ret # None
    /\ Event.old = Some("Reconnaissance")
    /\ Event.new = "Unvalidated"
    /\ missed

====
